---- MODULE Spec2Model ----
(***************************************************************************)
(* Context-menu primitives of src/lib/rn-primitives/context-menu.tsx.      *)
(*                                                                         *)
(* One root session (Root, Trigger, Portal, Overlay, Content, Item,        *)
(* CheckboxItem, RadioGroup/RadioItem) with one nested submenu (Sub,       *)
(* SubTrigger, SubContent), composed the way the file's components are     *)
(* meant to be nested:                                                     *)
(*   Root > { Trigger, Portal > { Overlay, Content > { items, Sub } } }    *)
(* The owner of Root (and of Sub, CheckboxItem, RadioGroup) applies every  *)
(* on...Change(v) it receives by storing v.                                *)
(*                                                                         *)
(* Every action is one event handler together with the render pass and     *)
(* the effect / effect-cleanup calls that React runs because of it.        *)
(***************************************************************************)
EXTENDS Integers, Sequences, FiniteSets, TLC

\* Largest page coordinate of a press.
MaxCoord == 1
\* Largest width of a measured content rectangle.
MaxSize == 2
\* SubTrigger presses that are counted; the count stays at this value after it.
MaxPresses == 3

\* A nullable value: null is the empty tuple, a value v is <<v>>.
Null == <<>>
Some(v) == <<v>>

Coords == 0 .. MaxCoord

\* LayoutPosition values a trigger activation stores (width and height 0).
LayoutPosition(pageX, pageY) ==
  [width |-> 0, pageX |-> pageX, pageY |-> pageY, height |-> 0]

\* LayoutRectangle values a layout event carries (the handlers store the
\* rectangle whole, so only its width is varied).
LayoutRectangles ==
  { [x |-> 0, y |-> 0, width |-> w, height |-> 1] : w \in 1 .. MaxSize }

\* Action names an accessibility event can carry.
ActionNames == { "longpress", "activate" }

\* Values of the radio items of the menu.
ItemValues == { "a", "b" }

VARIABLES
  rootMounted,        \* the Root component (and its owner) is mounted
  open,               \* RootProps.open, held by the owner
  pressPosition,      \* Root's useState pressPosition
  contentLayout,      \* Root's useState contentLayout
  subOpen,            \* Sub's open prop, held by the owner
  subPresses,         \* SubTrigger presses since the Sub was mounted (up to MaxPresses)
  checked,            \* CheckboxItem's checked prop, held by the owner
  value,              \* RadioGroup's value prop, held by the owner
  portalForceMount,   \* Portal's forceMount prop
  overlayForceMount,  \* Overlay's forceMount prop
  contentForceMount,  \* Content's forceMount prop
  subContentForceMount, \* SubContent's forceMount prop
  contentMounted,     \* the Content component instance exists (Portal rendered its children)
  backHandlers,       \* BackHandler's 'hardwareBackPress' subscriptions, in registration order
  event,              \* the handler that ran last
  calls,              \* the calls that handler made, in order
  consumed,           \* the last back action was reported as handled
  render,             \* one render of one component: its ancestors, props and outcome
  position            \* one call of the positioning engine: its arguments and placement

vars ==
  << rootMounted, open, pressPosition, contentLayout, subOpen, subPresses, checked, value,
     portalForceMount, overlayForceMount, contentForceMount, subContentForceMount,
     contentMounted, backHandlers, event, calls, consumed, render, position >>

\* The variables of the session's state machine.
sessionVars ==
  << rootMounted, open, pressPosition, contentLayout, subOpen, subPresses, checked, value,
     portalForceMount, overlayForceMount, contentForceMount, subContentForceMount,
     contentMounted, backHandlers, event, calls, consumed >>

\* The variables of the single-render and single-placement specifications.
Pure == << render, position >>

\* The root session as the handlers of one render see it.
Session == [open |-> open, pressPosition |-> pressPosition, contentLayout |-> contentLayout]

Called(c) == \E i \in 1 .. Len(calls) : calls[i] = c

IndexOf(c) == CHOOSE i \in 1 .. Len(calls) : calls[i] = c

----------------------------------------------------------------------------
\* Root

\* Root.close without the anchor reset.
close_keepPressPosition(s) == [s EXCEPT !.contentLayout = Null, !.open = FALSE]

\* Root.close without the onOpenChange(false) call.
close_noOpenChange(s) == [s EXCEPT !.pressPosition = Null, !.contentLayout = Null]

\* function close(): setPressPosition(null); setContentLayout(null); onOpenChange(false)
close(s) == [s EXCEPT !.pressPosition = Null, !.contentLayout = Null, !.open = FALSE]

----------------------------------------------------------------------------
\* Trigger

\* Trigger.onLongPress without the disabled check.
onLongPress_ignoresDisabled(s, disabled, pageX, pageY) ==
  [s EXCEPT !.pressPosition = Some(LayoutPosition(pageX, pageY)), !.open = ~s.open]

\* Trigger.onLongPress: returns early when disabled, else stores the press
\* point and calls onOpenChange(!open).
onLongPress(s, disabled, pageX, pageY) ==
  IF disabled THEN s
  ELSE [s EXCEPT !.pressPosition = Some(LayoutPosition(pageX, pageY)), !.open = ~s.open]

onLongPressCalls(disabled) ==
  IF disabled THEN <<>> ELSE << "setPressPosition", "onOpenChange", "onLongPressProp" >>

\* Trigger.onAccessibilityAction: returns early when disabled; on 'longpress'
\* stores the origin and calls onOpenChange(!open).
onAccessibilityAction(s, disabled, actionName) ==
  IF disabled THEN s
  ELSE IF actionName = "longpress"
       THEN [s EXCEPT !.pressPosition = Some(LayoutPosition(0, 0)), !.open = ~s.open]
       ELSE s

onAccessibilityActionCalls(disabled, actionName) ==
  IF disabled THEN <<>>
  ELSE IF actionName = "longpress"
       THEN << "setPressPosition", "onOpenChange", "onAccessibilityActionProp" >>
       ELSE << "onAccessibilityActionProp" >>

----------------------------------------------------------------------------
\* Render gates

\* Portal renders its children: never without a pressPosition, and without
\* forceMount only while open.
Portal(s, forceMount) ==
  IF s.pressPosition = Null THEN FALSE
  ELSE IF ~forceMount /\ ~s.open THEN FALSE
  ELSE TRUE

\* Overlay renders its Pressable.
Overlay(s, forceMount) == IF ~forceMount /\ ~s.open THEN FALSE ELSE TRUE

\* Content renders its Pressable (the view that reports onLayout).
Content(s, forceMount) == IF ~forceMount /\ ~s.open THEN FALSE ELSE TRUE

\* SubContent renders its View. The component subscribes to nothing: it has
\* no effect hook, so mounting it leaves BackHandler's subscriptions alone.
SubContent(o, forceMount) == IF ~forceMount /\ ~o THEN FALSE ELSE TRUE

\* The Overlay pressable is on screen.
OverlayRendered == contentMounted /\ Overlay(Session, overlayForceMount)

\* The Content pressable, and with it the items inside, is on screen.
ContentRendered == contentMounted /\ Content(Session, contentForceMount)

\* The SubContent view is on screen (Sub is nested inside Content).
SubContentRendered == ContentRendered /\ SubContent(subOpen, subContentForceMount)

----------------------------------------------------------------------------
\* Content's effect: back-action subscription

\* BackHandler.addEventListener('hardwareBackPress', ...) on mount.
ContentEffect(handlers) == Append(handlers, "root")

\* Removes the most recent subscription of h.
RECURSIVE RemoveLast(_, _)
RemoveLast(handlers, h) ==
  IF handlers = <<>> THEN <<>>
  ELSE IF handlers[Len(handlers)] = h THEN SubSeq(handlers, 1, Len(handlers) - 1)
  ELSE Append(RemoveLast(SubSeq(handlers, 1, Len(handlers) - 1), h), handlers[Len(handlers)])

\* The effect's cleanup without backHandler.remove().
ContentCleanupHandlers_noRemove(handlers) == handlers

\* The effect's cleanup, listener part: backHandler.remove().
ContentCleanupHandlers(handlers) == RemoveLast(handlers, "root")

\* The effect's cleanup, state part: setContentLayout(null).
ContentCleanupLayout(s) == [s EXCEPT !.contentLayout = Null]

\* The subscribed callback: close(); return true.
ContentBackHandler(s) == close(s)

\* The render pass after a handler left the session as s: Content is mounted
\* or unmounted as Portal decides, its effect or cleanup runs, and the
\* resulting state is stored.
Commit(s) ==
  LET mounted == rootMounted /\ Portal(s, portalForceMount)
      unmounting == contentMounted /\ ~mounted
      mounting == ~contentMounted /\ mounted
      s2 == IF unmounting THEN ContentCleanupLayout(s) ELSE s
  IN  /\ open' = s2.open
      /\ pressPosition' = s2.pressPosition
      /\ contentLayout' = s2.contentLayout
      /\ contentMounted' = mounted
      /\ backHandlers' = IF mounting THEN ContentEffect(backHandlers)
                         ELSE IF unmounting THEN ContentCleanupHandlers(backHandlers)
                         ELSE backHandlers

----------------------------------------------------------------------------
\* Press handlers of Overlay and the items

\* Overlay.onPress
OverlayOnPress(s, closeOnPress) == IF closeOnPress THEN close(s) ELSE s

OverlayOnPressCalls(closeOnPress) ==
  (IF closeOnPress THEN << "close" >> ELSE <<>>) \o << "onPressProp" >>

\* Item.onPress that closes whatever closeOnPress says.
ItemOnPress_alwaysCloses(s, closeOnPress) == close(s)

\* Item.onPress: close() when closeOnPress, then onSelect, then onPressProp.
ItemOnPress(s, closeOnPress) == IF closeOnPress THEN close(s) ELSE s

ItemOnPressCalls(closeOnPress) ==
  (IF closeOnPress THEN << "close" >> ELSE <<>>) \o << "onSelect", "onPressProp" >>

\* CheckboxItem.onPress: onCheckedChange(!checked), close() when closeOnPress,
\* then onSelect, then onPressProp.
CheckboxItemOnPress(s, closeOnPress) == IF closeOnPress THEN close(s) ELSE s

CheckboxItemOnPressCalls(closeOnPress) ==
  << "onCheckedChange" >> \o (IF closeOnPress THEN << "close" >> ELSE <<>>)
    \o << "onSelect", "onPressProp" >>

\* RadioItem.onPress: onValueChange(itemValue), close() when closeOnPress,
\* then onSelect, then onPressProp.
RadioItemOnPress(s, closeOnPress) == IF closeOnPress THEN close(s) ELSE s

RadioItemOnPressCalls(closeOnPress) ==
  << "onValueChange" >> \o (IF closeOnPress THEN << "close" >> ELSE <<>>)
    \o << "onSelect", "onPressProp" >>

\* SubTrigger.onPress that opens instead of toggling.
SubTriggerOnPress_alwaysOpen(o) == TRUE

\* SubTrigger.onPress: onOpenChange(!open) on the Sub's own open flag.
SubTriggerOnPress(o) == ~o

----------------------------------------------------------------------------
\* Initial state: a mounted Root that starts closed, nothing selected.

Init ==
  /\ rootMounted = TRUE
  /\ open = FALSE
  /\ pressPosition = Null
  /\ contentLayout = Null
  /\ subOpen = FALSE
  /\ subPresses = 0
  /\ checked = FALSE
  /\ value = "undefined"
  /\ portalForceMount \in BOOLEAN
  /\ overlayForceMount \in BOOLEAN
  /\ contentForceMount \in BOOLEAN
  /\ subContentForceMount \in BOOLEAN
  /\ contentMounted = FALSE
  /\ backHandlers = <<>>
  /\ event = "init"
  /\ calls = <<>>
  /\ consumed = FALSE
  /\ render = Null
  /\ position = Null

Props ==
  << rootMounted, portalForceMount, overlayForceMount, contentForceMount, subContentForceMount >>
Owned == << subOpen, subPresses, checked, value >>

----------------------------------------------------------------------------
\* Events

\* A long press on the Trigger.
LongPress ==
  /\ rootMounted
  /\ \E disabled \in BOOLEAN, x \in Coords, y \in Coords :
       /\ Commit(onLongPress(Session, disabled, x, y))
       /\ calls' = onLongPressCalls(disabled)
  /\ event' = "longPress"
  /\ consumed' = FALSE
  /\ UNCHANGED << Props, Owned >>
  /\ UNCHANGED Pure

\* An accessibility action on the Trigger.
AccessibilityAction ==
  /\ rootMounted
  /\ \E disabled \in BOOLEAN, actionName \in ActionNames :
       /\ Commit(onAccessibilityAction(Session, disabled, actionName))
       /\ calls' = onAccessibilityActionCalls(disabled, actionName)
  /\ event' = "accessibilityAction"
  /\ consumed' = FALSE
  /\ UNCHANGED << Props, Owned >>
  /\ UNCHANGED Pure

\* A press on the Overlay.
OverlayPress ==
  /\ OverlayRendered
  /\ \E closeOnPress \in BOOLEAN :
       /\ Commit(OverlayOnPress(Session, closeOnPress))
       /\ calls' = OverlayOnPressCalls(closeOnPress)
  /\ event' = "overlayPress"
  /\ consumed' = FALSE
  /\ UNCHANGED << Props, Owned >>
  /\ UNCHANGED Pure

\* A press on an Item.
ItemPress ==
  /\ ContentRendered
  /\ \E closeOnPress \in BOOLEAN :
       /\ Commit(ItemOnPress(Session, closeOnPress))
       /\ calls' = ItemOnPressCalls(closeOnPress)
  /\ event' = "itemPress"
  /\ consumed' = FALSE
  /\ UNCHANGED << Props, Owned >>
  /\ UNCHANGED Pure

\* A press on the CheckboxItem.
CheckboxItemPress ==
  /\ ContentRendered
  /\ \E closeOnPress \in BOOLEAN :
       /\ Commit(CheckboxItemOnPress(Session, closeOnPress))
       /\ calls' = CheckboxItemOnPressCalls(closeOnPress)
  /\ checked' = ~checked
  /\ event' = "checkboxItemPress"
  /\ consumed' = FALSE
  /\ UNCHANGED << Props, subOpen, subPresses, value >>
  /\ UNCHANGED Pure

\* A press on one of the RadioItems.
RadioItemPress ==
  /\ ContentRendered
  /\ \E closeOnPress \in BOOLEAN, itemValue \in ItemValues :
       /\ Commit(RadioItemOnPress(Session, closeOnPress))
       /\ calls' = RadioItemOnPressCalls(closeOnPress)
       /\ value' = itemValue
  /\ event' = "radioItemPress"
  /\ consumed' = FALSE
  /\ UNCHANGED << Props, subOpen, subPresses, checked >>
  /\ UNCHANGED Pure

\* A SubTrigger that reads open / onOpenChange from the root's context
\* instead of the Sub's.
SubTriggerPress_onRootContext ==
  /\ ContentRendered
  /\ Commit([Session EXCEPT !.open = SubTriggerOnPress(open)])
  /\ calls' = << "onOpenChange", "onPressProp" >>
  /\ event' = "subTriggerPress"
  /\ consumed' = FALSE
  /\ UNCHANGED << Props, Owned >>
  /\ UNCHANGED Pure

\* A press on the SubTrigger.
SubTriggerPress ==
  /\ ContentRendered
  /\ subOpen' = SubTriggerOnPress(subOpen)
  /\ subPresses' = IF subPresses < MaxPresses THEN subPresses + 1 ELSE subPresses
  /\ Commit(Session)
  /\ calls' = << "onOpenChange", "onPressProp" >>
  /\ event' = "subTriggerPress"
  /\ consumed' = FALSE
  /\ UNCHANGED << Props, checked, value >>
  /\ UNCHANGED Pure

\* Content.onLayout: the host reports the measured rectangle of the Content view.
Layout ==
  /\ ContentRendered
  /\ \E rect \in LayoutRectangles :
       Commit([Session EXCEPT !.contentLayout = Some(rect)])
  /\ calls' = << "setContentLayout", "onLayoutProp" >>
  /\ event' = "layout"
  /\ consumed' = FALSE
  /\ UNCHANGED << Props, Owned >>
  /\ UNCHANGED Pure

\* A hardware back press: BackHandler calls the most recent subscription;
\* with none the action is left to the host.
BackAction ==
  /\ IF backHandlers # <<>>
     THEN /\ Commit(ContentBackHandler(Session))
          /\ calls' = << "close" >>
          /\ consumed' = TRUE
     ELSE /\ UNCHANGED << open, pressPosition, contentLayout, contentMounted, backHandlers >>
          /\ calls' = <<>>
          /\ consumed' = FALSE
  /\ event' = "back"
  /\ UNCHANGED << Props, Owned >>
  /\ UNCHANGED Pure

\* The Root and its owner are unmounted: Content's cleanup runs if it was
\* mounted, and the session's state is gone.
Teardown ==
  /\ rootMounted
  /\ rootMounted' = FALSE
  /\ contentMounted' = FALSE
  /\ backHandlers' = IF contentMounted THEN ContentCleanupHandlers(backHandlers) ELSE backHandlers
  /\ open' = FALSE
  /\ pressPosition' = Null
  /\ contentLayout' = Null
  /\ subOpen' = FALSE
  /\ subPresses' = 0
  /\ checked' = FALSE
  /\ value' = "undefined"
  /\ calls' = <<>>
  /\ event' = "teardown"
  /\ consumed' = FALSE
  /\ UNCHANGED << portalForceMount, overlayForceMount, contentForceMount, subContentForceMount >>
  /\ UNCHANGED Pure

\* A new Root is mounted, closed, with the props of its components chosen anew.
Mount ==
  /\ ~rootMounted
  /\ rootMounted' = TRUE
  /\ portalForceMount' \in BOOLEAN
  /\ overlayForceMount' \in BOOLEAN
  /\ contentForceMount' \in BOOLEAN
  /\ subContentForceMount' \in BOOLEAN
  /\ calls' = <<>>
  /\ event' = "mount"
  /\ consumed' = FALSE
  /\ UNCHANGED << open, pressPosition, contentLayout, contentMounted, backHandlers, Owned >>
  /\ UNCHANGED Pure

Next ==
  \/ LongPress
  \/ AccessibilityAction
  \/ OverlayPress
  \/ ItemPress
  \/ CheckboxItemPress
  \/ RadioItemPress
  \/ SubTriggerPress
  \/ Layout
  \/ BackAction
  \/ Teardown
  \/ Mount

Spec == Init /\ [][Next]_vars

----------------------------------------------------------------------------
\* One render of one component under a chosen set of ancestor providers.
\*
\* JavaScript values are written as strings: "undefined", "null", "true",
\* "false" and the item values. A context value is a record whose object
\* field says that it is an object; its other fields read "undefined" when
\* the object does not have them.

Components ==
  { "Trigger", "Portal", "Overlay", "Content", "Item", "CheckboxItem", "RadioItem",
    "ItemIndicator", "SubTrigger", "SubContent" }

\* Nearest FormItemContext.Provider above the component.
FormProviders == { "none", "CheckboxItem", "RadioGroup" }

JsBooleans == { "true", "false" }

\* JavaScript truthiness of a primitive.
Truthy(v) == v \notin { "undefined", "null", "false" }

\* JavaScript `!context`: an object, the empty one included, is truthy.
Not(context) == ~context.object

\* JavaScript `v == null`.
LooseEqualsNull(v) == v \in { "undefined", "null" }

\* React.createContext({} as RootContext): the default is an empty object.
ContextMenuContextDefault ==
  [object |-> TRUE, open |-> "undefined", pressPosition |-> "undefined"]

\* React.createContext({} as FormItemContext)
FormItemContextDefault == [object |-> TRUE, checked |-> "undefined", value |-> "undefined"]

\* React.createContext({} as { itemValue: string })
RadioItemContextDefault == [object |-> TRUE, itemValue |-> "undefined"]

\* React.createContext({} as { nativeID, open, onOpenChange })
SubContextDefault == [object |-> TRUE, open |-> "undefined"]

\* React.useContext(ContextMenuContext) for the render r.
RootContextOf(r) ==
  IF r.inRoot
  THEN [object |-> TRUE, open |-> r.open, pressPosition |-> r.pressPosition]
  ELSE ContextMenuContextDefault

\* React.useContext(FormItemContext): CheckboxItem provides { checked },
\* RadioGroup provides { value, onValueChange }.
FormContextOf(r) ==
  IF r.form = "CheckboxItem"
  THEN [object |-> TRUE, checked |-> r.checked, value |-> "undefined"]
  ELSE IF r.form = "RadioGroup"
  THEN [object |-> TRUE, checked |-> "undefined", value |-> r.value]
  ELSE FormItemContextDefault

\* React.useContext(RadioItemContext)
RadioItemContextOf(r) ==
  IF r.inRadioItem THEN [object |-> TRUE, itemValue |-> r.itemValue]
  ELSE RadioItemContextDefault

\* React.useContext(SubContext)
SubContextOf(r) ==
  IF r.inSub THEN [object |-> TRUE, open |-> r.subOpen] ELSE SubContextDefault

\* useContextMenuContext, useFormItemContext, useSubContext: throw when the
\* context is falsy.
useContextMenuContext(context) == IF Not(context) THEN "throws" ELSE "returns"
useFormItemContext(context) == IF Not(context) THEN "throws" ELSE "returns"
useSubContext(context) == IF Not(context) THEN "throws" ELSE "returns"

\* useItemIndicatorContext: { itemValue: null } for a falsy context, else the
\* context itself; returns the itemValue the caller destructures.
useItemIndicatorContext(context) == IF Not(context) THEN "null" ELSE context.itemValue

\* The forceMount / open gate shared by Overlay, Content and SubContent.
Gate(forceMount, o) == IF ~Truthy(forceMount) /\ ~Truthy(o) THEN "null" ELSE "element"

\* ItemIndicator with its first test written as `!checked` alone.
ItemIndicator_onlyChecked(r) ==
  LET form == FormContextOf(r)
  IN  IF ~Truthy(r.forceMount) /\ ~Truthy(form.checked) THEN "null" ELSE "element"

\* ItemIndicator: what the component returns.
ItemIndicator(r) ==
  LET itemValue == useItemIndicatorContext(RadioItemContextOf(r))
      form == FormContextOf(r)
  IN  IF useFormItemContext(form) = "throws" THEN "throws"
      ELSE IF ~Truthy(r.forceMount)
           THEN IF LooseEqualsNull(itemValue) /\ ~Truthy(form.checked) THEN "null"
                ELSE IF form.value # itemValue THEN "null"
                ELSE "element"
           ELSE "element"

\* What rendering the component of r does: "throws", "null" or "element".
RenderResult(r) ==
  LET root == RootContextOf(r)
      sub == SubContextOf(r)
  IN  CASE r.component \in { "Trigger", "Item", "CheckboxItem" } ->
             IF useContextMenuContext(root) = "throws" THEN "throws" ELSE "element"
        [] r.component = "Portal" ->
             IF useContextMenuContext(root) = "throws" THEN "throws"
             ELSE IF ~Truthy(root.pressPosition) THEN "null"
             ELSE Gate(r.forceMount, root.open)
        [] r.component \in { "Overlay", "Content" } ->
             IF useContextMenuContext(root) = "throws" THEN "throws"
             ELSE Gate(r.forceMount, root.open)
        [] r.component = "RadioItem" ->
             IF useContextMenuContext(root) = "throws" THEN "throws"
             ELSE IF useFormItemContext(FormContextOf(r)) = "throws" THEN "throws"
             ELSE "element"
        [] r.component = "ItemIndicator" -> ItemIndicator(r)
        [] r.component = "SubTrigger" ->
             IF useSubContext(sub) = "throws" THEN "throws" ELSE "element"
        [] r.component = "SubContent" ->
             IF useSubContext(sub) = "throws" THEN "throws"
             ELSE Gate(r.forceMount, sub.open)

\* The session machine at rest while single renders or placements are examined.
SessionIdle ==
  /\ rootMounted = FALSE
  /\ open = FALSE
  /\ pressPosition = Null
  /\ contentLayout = Null
  /\ subOpen = FALSE
  /\ subPresses = 0
  /\ checked = FALSE
  /\ value = "undefined"
  /\ portalForceMount = FALSE
  /\ overlayForceMount = FALSE
  /\ contentForceMount = FALSE
  /\ subContentForceMount = FALSE
  /\ contentMounted = FALSE
  /\ backHandlers = <<>>
  /\ event = "init"
  /\ calls = <<>>
  /\ consumed = FALSE

InitRender ==
  /\ SessionIdle
  /\ position = Null
  /\ render \in
       [ component : Components,
         inRoot : BOOLEAN, form : FormProviders, inRadioItem : BOOLEAN, inSub : BOOLEAN,
         open : JsBooleans, pressPosition : { "null", "object" }, subOpen : JsBooleans,
         checked : JsBooleans, value : { "undefined" } \cup ItemValues,
         itemValue : ItemValues, forceMount : { "undefined", "false", "true" },
         result : { "pending" } ]

\* React renders the component.
Render ==
  /\ render.result = "pending"
  /\ render' = [render EXCEPT !.result = RenderResult(render)]
  /\ UNCHANGED << sessionVars, position >>

NextRender == Render

SpecRender == InitRender /\ [][NextRender]_vars

----------------------------------------------------------------------------
\* The positioning engine that Content calls (useRelativePosition), as the
\* design document describes it: computePlacement(anchor, contentLayout,
\* prefs, viewport).

Min(a, b) == IF a < b THEN a ELSE b
Max(a, b) == IF a > b THEN a ELSE b

\* Candidate top along a side.
PrimaryAxis(side, anchor, content, sideOffset) ==
  IF side = "bottom" THEN anchor.y + anchor.height + sideOffset
  ELSE anchor.y - content.height - sideOffset

\* Candidate left along an alignment.
CrossAxis(align, anchor, content, alignOffset) ==
  IF align = "start" THEN anchor.x + alignOffset
  ELSE IF align = "center"
  THEN anchor.x + (anchor.width \div 2) - (content.width \div 2) + alignOffset
  ELSE anchor.x + anchor.width - content.width + alignOffset

\* Width left between the horizontal insets.
AvailableSpan(viewport, insets) == viewport.width - insets.left - insets.right

\* Horizontal clamp that always clamps into [insets.left, right limit].
ClampLeft_noPin(left, content, viewport, insets) ==
  Min(Max(left, insets.left), viewport.width - insets.right - content.width)

\* Horizontal clamp: pinned to insets.left when the content is wider than the
\* available span, else clamped into [insets.left, viewport.width -
\* insets.right - content.width].
ClampLeft(left, content, viewport, insets) ==
  IF AvailableSpan(viewport, insets) < content.width THEN insets.left
  ELSE Min(Max(left, insets.left), viewport.width - insets.right - content.width)

\* The panel placed at top on the given side leaves the inset area.
Overflows(side, top, content, viewport, insets) ==
  IF side = "bottom" THEN top + content.height > viewport.height - insets.bottom
  ELSE top < insets.top

Opposite(side) == IF side = "bottom" THEN "top" ELSE "bottom"

\* Vertical clamp to the inset boundary, the top inset winning.
ClampTop(top, content, viewport, insets) ==
  Max(insets.top, Min(top, viewport.height - insets.bottom - content.height))

\* Vertical placement that never flips.
Vertical_noFlip(side, anchor, content, sideOffset, viewport, insets) ==
  LET top == PrimaryAxis(side, anchor, content, sideOffset)
  IN  IF ~Overflows(side, top, content, viewport, insets) THEN [side |-> side, top |-> top]
      ELSE [side |-> side, top |-> ClampTop(top, content, viewport, insets)]

\* Vertical flip rule: keep the requested side when it fits, flip when it
\* overflows and the other side fits, else keep it and clamp.
Vertical(side, anchor, content, sideOffset, viewport, insets) ==
  LET top == PrimaryAxis(side, anchor, content, sideOffset)
      flipped == PrimaryAxis(Opposite(side), anchor, content, sideOffset)
  IN  IF ~Overflows(side, top, content, viewport, insets) THEN [side |-> side, top |-> top]
      ELSE IF ~Overflows(Opposite(side), flipped, content, viewport, insets)
      THEN [side |-> Opposite(side), top |-> flipped]
      ELSE [side |-> side, top |-> ClampTop(top, content, viewport, insets)]

\* computePlacement for the arguments held in p; an unmeasured content gives
\* an unpositioned style.
computePlacement(p) ==
  IF p.content = Null
  THEN [positioned |-> FALSE, side |-> p.side, top |-> 0, left |-> 0,
        maxWidth |-> AvailableSpan(p.viewport, p.insets)]
  ELSE
    LET content == p.content[1]
        left == CrossAxis(p.align, p.anchor, content, p.alignOffset)
        v == IF p.avoidCollisions
             THEN Vertical(p.side, p.anchor, content, p.sideOffset, p.viewport, p.insets)
             ELSE [side |-> p.side, top |-> PrimaryAxis(p.side, p.anchor, content, p.sideOffset)]
    IN  [positioned |-> TRUE, side |-> v.side, top |-> v.top,
         left |-> IF p.avoidCollisions THEN ClampLeft(left, content, p.viewport, p.insets)
                  ELSE left,
         maxWidth |-> AvailableSpan(p.viewport, p.insets)]

\* Arguments tried: press points and trigger rectangles, small and oversized
\* contents, no insets, ordinary insets and insets larger than the viewport.
Anchors ==
  { [x |-> x, y |-> y, width |-> w, height |-> w] :
      x \in { 0, 100, 390 }, y \in { 0, 100, 500 }, w \in { 0, 20 } }

Contents ==
  { Null } \cup
  { Some([width |-> w, height |-> h]) : w \in { 0, 200, 500 }, h \in { 150, 700 } }

InsetsTried ==
  { [top |-> 0, bottom |-> 0, left |-> 0, right |-> 0],
    [top |-> 10, bottom |-> 20, left |-> 30, right |-> 40],
    [top |-> 400, bottom |-> 400, left |-> 300, right |-> 300] }

Viewports == { [width |-> 400, height |-> 600] }

InitPosition ==
  /\ SessionIdle
  /\ render = Null
  /\ position \in
       [ anchor : Anchors, content : Contents, side : { "top", "bottom" },
         align : { "start", "center", "end" }, sideOffset : { 0, 4 }, alignOffset : { 0, 8 },
         avoidCollisions : BOOLEAN, insets : InsetsTried, viewport : Viewports,
         result : { Null } ]

\* Content asks the engine for its style.
Place ==
  /\ position.result = Null
  /\ position' = [position EXCEPT !.result = Some(computePlacement(position))]
  /\ UNCHANGED << sessionVars, render >>

NextPosition == Place

SpecPosition == InitPosition /\ [][NextPosition]_vars

----------------------------------------------------------------------------
\* Properties

\* Handlers that activate the root trigger.
TriggerEvents == { "longPress", "accessibilityAction" }

\* Handlers of the item family.
ItemEvents == { "itemPress", "checkboxItemPress", "radioItemPress" }

\* Handlers that can call close().
CloseEvents == { "overlayPress", "back" } \cup ItemEvents

FullyClosed == ~open /\ pressPosition = Null /\ contentLayout = Null

\* C1: in every reachable state of a mounted session, open = false implies
\* that the anchor (pressPosition) and contentLayout are both null.
C1_ClosedImpliesCleared ==
  (rootMounted /\ ~open) => (pressPosition = Null /\ contentLayout = Null)

\* C2: in every reachable state, open = true implies that the anchor
\* (pressPosition) is not null.
C2_OpenImpliesAnchor == open => pressPosition # Null

\* C2 witness: the menu is open with a stored anchor right after a trigger
\* activation.
C2_Witness ==
  open /\ pressPosition # Null /\ event \in TriggerEvents /\ Called("setPressPosition")

\* C3: after an activation of the root trigger (long press or 'longpress'
\* accessibility action on an enabled trigger) the session is open with an
\* anchor, whether or not it was open before.
C3_ActivationOpens ==
  (event \in TriggerEvents /\ Called("setPressPosition")) => (open /\ pressPosition # Null)

\* C4: after every event that closes (overlay press, item / checkbox item /
\* radio item press with closeOnPress, handled back action) open is false and
\* the anchor and contentLayout are null, all three together.
C4_CloseClearsAll == (event \in CloseEvents /\ Called("close")) => FullyClosed

\* C4 witness: a back action was handled and left the session fully closed.
C4_Witness == event = "back" /\ consumed /\ Called("close") /\ FullyClosed

\* C5: a close() called while open = false leaves open, the anchor and
\* contentLayout as they were.
C5_CloseWhenClosedIsNoOp ==
  [][ (~open /\ Called("close")') => UNCHANGED << open, pressPosition, contentLayout >> ]_vars

\* C6: a layout measurement delivered while the session is closed is
\* discarded: contentLayout is still null after it.
C6_LayoutWhileClosedDiscarded == (event = "layout" /\ ~open) => contentLayout = Null

\* C7: on an item press that closes, the selection callback onSelect is
\* invoked before close().
C7_SelectBeforeClose ==
  (event \in ItemEvents /\ Called("close") /\ Called("onSelect"))
    => IndexOf("onSelect") < IndexOf("close")

\* C8: a back action is consumed by the session exactly when the session is
\* open at the time of the back action.
C8_BackConsumedIffOpen == [][ event' = "back" => (consumed' <=> open) ]_vars

\* C9: the session holds at most one back-action registration, holds one
\* whenever it is open, and holds one exactly while its Content is mounted
\* (none once the Content is unmounted).
C9_OneListenerWhileMounted ==
  /\ Len(backHandlers) <= 1
  /\ open => backHandlers # <<>>
  /\ contentMounted <=> backHandlers # <<>>

\* C9 witness: a handler that closed the menu unmounted the Content and the
\* registration made on opening is released.
C9_Witness ==
  /\ event \in CloseEvents /\ Called("close")
  /\ ~contentMounted /\ backHandlers = <<>>

\* C10: with the root menu and the submenu both open (SubContent on screen),
\* a back action closes the submenu and leaves the root open.
C10_BackClosesSubmenuFirst ==
  [][ (event' = "back" /\ open /\ subOpen /\ SubContentRendered)
        => (~subOpen' /\ open') ]_vars

\* C11: the submenu trigger toggles: after n presses of the SubTrigger since
\* the Sub was mounted closed (n below MaxPresses, where counting stops) the
\* submenu is open exactly when n is odd; two presses return it to closed.
C11_SubTriggerToggles ==
  subPresses < MaxPresses => (subOpen <=> subPresses % 2 = 1)

\* C11 witness: the second consecutive SubTrigger press left the submenu closed.
C11_Witness == event = "subTriggerPress" /\ subPresses = 2 /\ ~subOpen

Count(c) == Cardinality({ i \in 1 .. Len(calls) : calls[i] = c })

\* Handlers that belong to the root session.
RootEvents == TriggerEvents \cup CloseEvents \cup { "layout" }

\* C12: root and submenu sessions are independent: every root event leaves
\* the submenu's open flag unchanged, and a SubTrigger press leaves the
\* root's open, anchor and contentLayout unchanged.
C12_SessionsIndependent ==
  [][ /\ event' \in RootEvents => subOpen' = subOpen
      /\ event' = "subTriggerPress" => UNCHANGED << open, pressPosition, contentLayout >>
    ]_vars

\* C12 witness: the root was closed by one of its own events while the
\* submenu is still open.
C12_Witness == event \in CloseEvents /\ Called("close") /\ ~open /\ subOpen

\* C13: immediately after an activation that opens the menu, contentLayout
\* is null (every earlier close invalidated the measurement).
C13_OpensPendingLayout ==
  (event \in TriggerEvents /\ Called("setPressPosition") /\ open) => contentLayout = Null

\* C19: a long press or accessibility action on a disabled Trigger (the
\* handler makes no call), and an accessibility action other than
\* 'longpress' on an enabled Trigger, leave open, the anchor and
\* contentLayout unchanged and never call onOpenChange.
C19_DisabledTriggerInert ==
  [][ (event' \in TriggerEvents /\ ~Called("setPressPosition")')
        => /\ UNCHANGED << open, pressPosition, contentLayout >>
           /\ ~Called("onOpenChange")' ]_vars

\* C19 witness: a long press on a disabled Trigger happened while the menu
\* was open and the menu is still open.
C19_Witness == event = "longPress" /\ calls = <<>> /\ open

\* Handlers of the pressables that take closeOnPress.
PressEvents == { "overlayPress" } \cup ItemEvents

\* C20: a press on the Overlay or an item with closeOnPress = false (the
\* handler does not call close) leaves open, the anchor and contentLayout
\* unchanged, and the item's callbacks still run exactly once:
\* onCheckedChange(!checked), onValueChange(itemValue), onSelect.
C20_NoCloseWithoutCloseOnPress ==
  [][ (event' \in PressEvents /\ ~Called("close")')
        => /\ UNCHANGED << open, pressPosition, contentLayout >>
           /\ event' \in ItemEvents => Count("onSelect")' = 1
           /\ event' = "checkboxItemPress"
                => (Count("onCheckedChange")' = 1 /\ checked' = ~checked)
           /\ event' = "radioItemPress"
                => (Count("onValueChange")' = 1 /\ value' \in ItemValues) ]_vars

\* C20 witness: an Item was pressed with closeOnPress = false and the menu is
\* still open and measured.
C20_Witness ==
  event = "itemPress" /\ ~Called("close") /\ open /\ contentLayout # Null

\* C14: each of Portal, Overlay, Content and SubContent renders its subtree
\* in every state when its forceMount is true, and only while its session is
\* open when forceMount is false.
C14_ForceMountRenders ==
  rootMounted =>
    /\ Portal(Session, portalForceMount) <=> (portalForceMount \/ open)
    /\ Overlay(Session, overlayForceMount) <=> (overlayForceMount \/ open)
    /\ Content(Session, contentForceMount) <=> (contentForceMount \/ open)
    /\ SubContent(subOpen, subContentForceMount) <=> (subContentForceMount \/ subOpen)

\* The ancestor provider the component of a render requires is absent.
MissingProvider ==
  \/ render.component \in { "Trigger", "Portal", "Overlay", "Content", "Item" } /\ ~render.inRoot
  \/ render.component = "RadioItem" /\ render.form # "RadioGroup"
  \/ render.component \in { "SubTrigger", "SubContent" } /\ ~render.inSub

\* C15: rendering a component without its required ancestor provider raises.
C15_MissingProviderThrows ==
  (render.result # "pending" /\ MissingProvider) => render.result = "throws"

\* C18: an ItemIndicator never raises; with forceMount it is rendered; without
\* forceMount, inside a CheckboxItem with no RadioItem ancestor it is rendered
\* exactly when checked is true, and inside a RadioItem of a RadioGroup exactly
\* when the group's value equals the item's value.
C18_ItemIndicatorRendering ==
  (render.component = "ItemIndicator" /\ render.result # "pending") =>
    /\ render.result # "throws"
    /\ Truthy(render.forceMount) => render.result = "element"
    /\ (~Truthy(render.forceMount) /\ render.form = "CheckboxItem" /\ ~render.inRadioItem)
         => (render.result = "element" <=> render.checked = "true")
    /\ (~Truthy(render.forceMount) /\ render.form = "RadioGroup" /\ render.inRadioItem)
         => (render.result = "element" <=> render.value = render.itemValue)

\* C18 witness: an ItemIndicator without forceMount inside a checked
\* CheckboxItem, with no RadioItem or RadioGroup around it, was rendered.
C18_Witness ==
  /\ render.component = "ItemIndicator" /\ render.result = "element"
  /\ ~Truthy(render.forceMount) /\ render.form = "CheckboxItem" /\ ~render.inRadioItem
  /\ render.checked = "true"

\* A placement was computed with collision avoidance for a measured content.
Placed == position.result # Null /\ position.avoidCollisions /\ position.content # Null

\* C16: with avoidCollisions and side = 'bottom', when the bottom placement
\* overflows the bottom inset and the top-side candidate is not above the top
\* inset, the placement is the top-side one; when both sides overflow the
\* requested side is kept and clamped to the inset boundary.
C16_FlipRule ==
  (Placed /\ position.side = "bottom") =>
    LET a == position.anchor
        c == position.content[1]
        vp == position.viewport
        ins == position.insets
        r == position.result[1]
        bottomTop == a.y + a.height + position.sideOffset
        topTop == a.y - c.height - position.sideOffset
        overflowsBottom == bottomTop + c.height > vp.height - ins.bottom
    IN  /\ (overflowsBottom /\ topTop >= ins.top) => (r.side = "top" /\ r.top = topTop)
        /\ (overflowsBottom /\ topTop < ins.top)
             => /\ r.side = "bottom"
                /\ r.top = Max(ins.top, Min(bottomTop, vp.height - ins.bottom - c.height))

\* C16 witness: anchor {x:100,y:500,w:0,h:0}, content 200x150, viewport
\* 400x600, sideOffset 4, no insets, align 'start' is placed at top 346, left 100.
C16_Witness ==
  /\ Placed /\ position.side = "bottom" /\ position.align = "start"
  /\ position.anchor = [x |-> 100, y |-> 500, width |-> 0, height |-> 0]
  /\ position.content = Some([width |-> 200, height |-> 150])
  /\ position.sideOffset = 4 /\ position.alignOffset = 0
  /\ position.insets = [top |-> 0, bottom |-> 0, left |-> 0, right |-> 0]
  /\ position.result[1].side = "top"
  /\ position.result[1].top = 346 /\ position.result[1].left = 100

\* C17: with avoidCollisions the returned left is at least insets.left,
\* left + min(contentWidth, availableSpan) is at most viewportWidth -
\* insets.right, and left is the same whichever side was requested or
\* chosen by the flip.
C17_HorizontalClamp ==
  Placed =>
    LET c == position.content[1]
        vp == position.viewport
        ins == position.insets
        r == position.result[1]
        span == vp.width - ins.left - ins.right
        other == computePlacement([position EXCEPT !.side = Opposite(position.side)])
    IN  /\ ins.left <= r.left
        /\ r.left + Min(c.width, span) <= vp.width - ins.right
        /\ r.left = other.left

\* C17 witness: a content wider than the span left by insets larger than the
\* viewport was placed, pinned to insets.left.
C17_Witness ==
  /\ Placed
  /\ position.insets.left + position.insets.right > position.viewport.width
  /\ position.content[1].width = 500
  /\ position.result[1].left = position.insets.left

====
